---- MODULE Spec2Model ----
(***************************************************************************)
(* The wallet connection broker of cosmodal: the getWallet() closure of    *)
(* GetWalletProvider (src/src/components/GetWalletProvider.tsx) and the    *)
(* getKeplr() closure of GetKeplrProvider (src/src/providers/wc-keplr.tsx).*)
(* Both are modelled by one state machine; `variant` says which provider   *)
(* is mounted.  Every promise returned by a request, every listener on the *)
(* EventEmitter, every WalletConnect connector and every resolver call in  *)
(* flight is part of the state.                                            *)
(***************************************************************************)
EXTENDS Integers, FiniteSets, Sequences, TLC

\* ------------------------------------------------------------------ bounds
MaxReq == 3        \* request() calls in one behaviour
MaxConn == 2       \* WalletConnect connectors constructed in one behaviour
MaxPending == 2    \* requests pending at the same time
MaxTasks == 1      \* resolver calls in flight per request and method
MaxCalls == 2      \* resolve/reject invocations counted per request (saturates)
NumHandles == 2    \* distinct wallet objects a resolver can return

\* ------------------------------------------------------------- value sets
Reqs == 1..MaxReq
Conns == 1..MaxConn
Absent == 0                         \* undefined
Handles == 1..NumHandles            \* objects returned by getWallet / window.keplr
WrapperOf(c) == NumHandles + c      \* new KeplrWalletConnectV1(connector)
NoType == "absent"                  \* connectionType / preference undefined
Methods == {"extension", "walletconnect"}
Topics == {"modal_close", "wc_qr_modal_close", "extension", "walletconnect"}
Variants == {"wallet", "keplr"}

IsRemote(m) == m = "walletconnect"  \* walletInfo.id.startsWith("walletconnect")

Min(S) == CHOOSE x \in S : \A y \in S : x <= y
Bump(n, cap) == IF n < cap THEN n + 1 ELSE cap

VARIABLES
  variant,                \* which provider is mounted
  isModalOpen,            \* SelectionPrompter visible
  wcUri,                  \* connector whose pairing URI is shown, 0 for ""
  lastUsedWallet,         \* lastUsedWalletRef.current / lastUsedKeplrRef.current
  connectionType,         \* connectionType state
  defaultConnectionType,  \* defaultConnectionTypeRef.current
  eventListener,          \* topic -> requests with a handler on that topic
  requests,               \* the promise of every request() call and its closure
  connectors,             \* WalletConnect connectors
  resolving,              \* resolver calls in flight: request -> method -> count (saturates)
  storedSession,          \* a WalletConnect session is kept in browser storage
  firstResolved           \* first handle a request resolved with since the last clear

vars == <<variant, isModalOpen, wcUri, lastUsedWallet, connectionType,
          defaultConnectionType, eventListener, requests, connectors,
          resolving, storedSession, firstResolved>>

NoHandle == 0 - 1                   \* firstResolved: nothing resolved yet

NewRequest ==
  [state |-> "unused", value |-> Absent, reason |-> "none", calls |-> 0,
   path |-> "none", method |-> NoType, callbackClosed |-> 0, wcConnector |-> 0]

NewConnector ==
  [owner |-> 0, connected |-> FALSE, restored |-> FALSE, sessions |-> 0,
   uriPending |-> FALSE, uriIssued |-> FALSE, handlers |-> 0, fired |-> FALSE,
   cancelled |-> FALSE]

\* The mutable state the handlers work on, as one record.
Pack ==
  [isModalOpen |-> isModalOpen, wcUri |-> wcUri, lastUsedWallet |-> lastUsedWallet,
   connectionType |-> connectionType, eventListener |-> eventListener,
   requests |-> requests, connectors |-> connectors, resolving |-> resolving,
   storedSession |-> storedSession, firstResolved |-> firstResolved]

Unpack(t) ==
  /\ isModalOpen' = t.isModalOpen
  /\ wcUri' = t.wcUri
  /\ lastUsedWallet' = t.lastUsedWallet
  /\ connectionType' = t.connectionType
  /\ eventListener' = t.eventListener
  /\ requests' = t.requests
  /\ connectors' = t.connectors
  /\ resolving' = t.resolving
  /\ storedSession' = t.storedSession
  /\ firstResolved' = t.firstResolved

FreeReqs(s) == {r \in Reqs : s.requests[r].state = "unused"}
FreeConns(s) == {c \in Conns : s.connectors[c].owner = 0}
Pending(s) == {r \in Reqs : s.requests[r].state = "pending"}

Init ==
  /\ variant \in Variants
  /\ isModalOpen = FALSE
  /\ wcUri = 0
  /\ lastUsedWallet = Absent
  /\ connectionType = NoType
  /\ defaultConnectionType = NoType
  /\ eventListener = [t \in Topics |-> {}]
  /\ requests = [r \in Reqs |-> NewRequest]
  /\ connectors = [c \in Conns |-> NewConnector]
  /\ resolving = [r \in Reqs |-> [m \in Methods |-> 0]]
  /\ storedSession \in BOOLEAN
  /\ firstResolved = NoHandle

\* --------------------------------------------------------------- promises
\* resolve(w) of request r's promise: only the first settlement takes effect.
resolve(s, r, w) ==
  LET q == s.requests[r]
      first == q.state = "pending"
  IN [s EXCEPT
        !.requests[r] = [q EXCEPT !.calls = Bump(q.calls, MaxCalls),
                                  !.state = IF first THEN "resolved" ELSE q.state,
                                  !.value = IF first THEN w ELSE q.value],
        !.firstResolved = IF first /\ w # Absent /\ s.firstResolved = NoHandle
                          THEN w ELSE s.firstResolved]

\* reject(e) of request r's promise.
reject(s, r, e) ==
  LET q == s.requests[r]
      first == q.state = "pending"
  IN [s EXCEPT
        !.requests[r] = [q EXCEPT !.calls = Bump(q.calls, MaxCalls),
                                  !.state = IF first THEN "rejected" ELSE q.state,
                                  !.reason = IF first THEN e ELSE q.reason]]

\* ------------------------------------------------------------ EventEmitter
\* eventListener.on(topic, handler) in the closure of request r.
on(s, topic, r) ==
  [s EXCEPT !.eventListener[topic] = s.eventListener[topic] \cup {r}]

\* The topics cleanUp() passes to eventListener.off(topic): "modal_close",
\* "wc_qr_modal_close" and every wallet id (GetWalletProvider); "modal_close",
\* "select_extension", "select_wallet_connect", "wc_qr_modal_close" (wc-keplr).
CleanUpTopics == {"modal_close", "wc_qr_modal_close"} \cup Methods

\* cleanUp() of request r.  off(topic) without a handler removes every
\* listener of the topic, whichever request registered it.
cleanUp(s, r) ==
  [s EXCEPT !.eventListener =
     [t \in Topics |-> IF t \in CleanUpTopics THEN {} ELSE s.eventListener[t]]]

\* -------------------------------------------------- WalletConnect connector
\* new WalletConnect({...}) in the closure of request r: the connector is
\* connected from the start when a session is kept in storage.
NextConn(s) == Min(FreeConns(s))

newConnector(s, r) ==
  [s EXCEPT !.connectors[NextConn(s)] =
     [NewConnector EXCEPT !.owner = r, !.connected = s.storedSession,
                          !.restored = s.storedSession]]

\* connector.createSession(); connector.on("connect", handler).
createSession(s, c) ==
  [s EXCEPT !.connectors[c] =
     [s.connectors[c] EXCEPT !.sessions = Bump(s.connectors[c].sessions, MaxCalls),
                             !.uriPending = TRUE,
                             !.handlers = Bump(s.connectors[c].handlers, MaxCalls)]]

\* ----------------------------------------------------------- resolveWallet
\* resolveWallet(walletInfo, resolver) up to its await: the resolver
\* walletInfo.getWallet(wcConnector) is called and is now in flight.
\* In wc-keplr: getKeplrFromWindow() is called and is now in flight.
resolveWallet(s, r, m) ==
  [s EXCEPT !.resolving[r][m] = Bump(s.resolving[r][m], MaxTasks)]

\* The wallet is stored: lastUsedWalletRef.current = wallet;
\* setConnectionType(walletInfo.id).
storeWallet(s, w, m) ==
  [s EXCEPT !.lastUsedWallet = w, !.connectionType = m]

\* -------------------------------------------------------- listener bodies
\* eventListener.on("modal_close", ...): setIsModalOpen(false); reject();
\* cleanUp().
onModalClose(s, r) ==
  cleanUp(reject([s EXCEPT !.isModalOpen = FALSE], r, "undefined"), r)

\* eventListener.on("wc_qr_modal_close", ...): setWCUri(""); callbackClosed()
\* if it is set.  callbackClosed is the connector's own callback: it tells the
\* connector that the modal was closed and settles nothing.
onWcQrModalClose(s, r) ==
  LET cb == s.requests[r].callbackClosed
      s1 == [s EXCEPT !.wcUri = 0]
  IN IF cb # 0 THEN [s1 EXCEPT !.connectors[cb].cancelled = TRUE] ELSE s1

\* onSelectWallet without the test of wcConnector.connected: every pick of
\* the remote method starts a new pairing.
onSelectWalletNoReuse(s, r, m) ==
  LET c == s.requests[r].wcConnector
      s1 == [s EXCEPT !.isModalOpen = FALSE, !.requests[r].method = m]
  IN IF IsRemote(m) THEN createSession(s1, c) ELSE resolveWallet(s1, r, m)

\* onSelectWallet that looks the preference up again when the pick arrives
\* and lets it override the picked method.
onSelectWalletPrefersDefault(s, r, m) ==
  LET m2 == IF defaultConnectionType \in Methods THEN defaultConnectionType ELSE m
      c == s.requests[r].wcConnector
      s1 == [s EXCEPT !.isModalOpen = FALSE, !.requests[r].method = m2]
  IN IF IsRemote(m2)
     THEN IF ~s1.connectors[c].connected
          THEN createSession(s1, c)
          ELSE resolveWallet(s1, r, m2)
     ELSE resolveWallet(s1, r, m2)

\* GetWalletProvider: eventListener.on(walletInfo.id, ...).
onSelectWallet(s, r, m) ==
  LET c == s.requests[r].wcConnector
      s1 == [s EXCEPT !.isModalOpen = FALSE, !.requests[r].method = m]
  IN IF IsRemote(m)
     THEN IF ~s1.connectors[c].connected
          THEN createSession(s1, c)
          ELSE resolveWallet(s1, r, m)
     ELSE resolveWallet(s1, r, m)

\* wc-keplr: eventListener.on("select_extension", ...).
onSelectExtension(s, r) ==
  resolveWallet([s EXCEPT !.isModalOpen = FALSE, !.requests[r].method = "extension"],
                r, "extension")

\* wc-keplr: eventListener.on("select_wallet_connect", ...): a new connector
\* for this pick, a "wc_qr_modal_close" listener, then createSession() or,
\* when the connector is connected already, the wallet at once.
onSelectWalletConnect(s, r) ==
  LET c == NextConn(s)
      s1 == on(newConnector([s EXCEPT !.requests[r].method = "walletconnect"], r),
               "wc_qr_modal_close", r)
  IN IF ~s1.connectors[c].connected
     THEN createSession(s1, c)
     ELSE cleanUp(resolve(storeWallet([s1 EXCEPT !.isModalOpen = FALSE],
                                      WrapperOf(c), "walletconnect"),
                          r, WrapperOf(c)), r)

\* The handler request r registered on `topic`.
Handler(s, r, topic) ==
  CASE topic = "modal_close" -> onModalClose(s, r)
    [] topic = "wc_qr_modal_close" -> onWcQrModalClose(s, r)
    [] topic \in Methods /\ variant = "wallet" -> onSelectWallet(s, r, topic)
    [] topic = "extension" /\ variant = "keplr" -> onSelectExtension(s, r)
    [] topic = "walletconnect" /\ variant = "keplr" -> onSelectWalletConnect(s, r)

\* eventListener.emit(topic): the listeners registered at the time of the
\* emit all run, in the order they were registered (the order of the calls).
RECURSIVE RunHandlers(_, _, _)
RunHandlers(s, rs, topic) ==
  IF rs = {} THEN s
  ELSE LET r == Min(rs) IN RunHandlers(Handler(s, r, topic), rs \ {r}, topic)

emit(s, topic) == RunHandlers(s, s.eventListener[topic], topic)

\* ------------------------------------------------------------ UI emissions
\* SelectWalletModal / KeplrConnectionSelectModal onRequestClose.
EmitModalClose ==
  /\ isModalOpen
  /\ Unpack(emit(Pack, "modal_close"))
  /\ UNCHANGED <<variant, defaultConnectionType>>

\* selectWallet(walletId) / onSelectExtension / onSelectWalletConnect.
EmitSelect(m) ==
  /\ isModalOpen
  /\ variant = "keplr" /\ IsRemote(m)
       => Cardinality(eventListener[m]) <= Cardinality(FreeConns(Pack))
  /\ Unpack(emit(Pack, m))
  /\ UNCHANGED <<variant, defaultConnectionType>>

\* WalletConnectQRCodeModal / KeplrWalletConnectQRModal onRequestClose.
EmitWcQrModalClose ==
  /\ wcUri # 0
  /\ Unpack(emit(Pack, "wc_qr_modal_close"))
  /\ UNCHANGED <<variant, defaultConnectionType>>

\* ----------------------------------------------------------------- requests
\* The promise of a new call, pending.
pendingRequest(s, r, path) ==
  [s EXCEPT !.requests[r] = [NewRequest EXCEPT !.state = "pending", !.path = path]]

\* return Promise.resolve(lastUsedWalletRef.current).
cacheHit(s, r) ==
  resolve(pendingRequest(s, r, "cache"), r, s.lastUsedWallet)

\* return new Promise(...) of GetWalletProvider: the modal opens and the
\* listeners of this call are registered.
promptWallet(s, r) ==
  on(on(on(on([s EXCEPT !.isModalOpen = TRUE],
              "modal_close", r), "wc_qr_modal_close", r),
        "extension", r), "walletconnect", r)

\* getWalletBody without the look-up of the preference: every call without
\* a cached wallet prompts.
getWalletBodyNoPref(s, r, pref) ==
  IF s.lastUsedWallet # Absent
  THEN cacheHit(s, r)
  ELSE LET c == NextConn(s)
           s1 == newConnector(pendingRequest(s, r, "prompt"), r)
       IN promptWallet([s1 EXCEPT !.requests[r].wcConnector = c], r)

\* getWallet() of GetWalletProvider, called as request r with preference pref.
getWalletBody(s, r, pref) ==
  IF s.lastUsedWallet # Absent
  THEN cacheHit(s, r)
  ELSE LET c == NextConn(s)
           path == IF pref \in Methods THEN "pref" ELSE "prompt"
           s1 == newConnector(pendingRequest(s, r, path), r)
           s2 == [s1 EXCEPT !.requests[r].wcConnector = c]
       IN IF pref \in Methods
          THEN resolveWallet([s2 EXCEPT !.requests[r].method = pref], r, pref)
          ELSE promptWallet(s2, r)

getWallet ==
  /\ variant = "wallet"
  /\ FreeReqs(Pack) # {}
  /\ Cardinality(Pending(Pack)) < MaxPending
  /\ lastUsedWallet = Absent => FreeConns(Pack) # {}
  /\ Unpack(getWalletBody(Pack, Min(FreeReqs(Pack)), defaultConnectionType))
  /\ UNCHANGED <<variant, defaultConnectionType>>

\* return new Promise(...) of wc-keplr.
promptKeplr(s, r) ==
  on(on(on([s EXCEPT !.isModalOpen = TRUE],
           "modal_close", r), "extension", r), "walletconnect", r)

\* getKeplrBody with the "extension" preference tested before the cache.
getKeplrBodyPrefFirst(s, r, pref) ==
  IF pref = "extension"
  THEN resolveWallet([pendingRequest(s, r, "pref") EXCEPT
                        !.requests[r].method = "extension"], r, "extension")
  ELSE IF s.lastUsedWallet # Absent
  THEN cacheHit(s, r)
  ELSE IF pref = "walletconnect" /\ s.storedSession
  THEN LET c == NextConn(s)
           s1 == [pendingRequest(s, r, "pref") EXCEPT
                    !.requests[r].method = "walletconnect"]
       IN resolve(storeWallet(newConnector(s1, r), WrapperOf(c), "walletconnect"),
                  r, WrapperOf(c))
  ELSE promptKeplr(pendingRequest(s, r, "prompt"), r)

\* getKeplr() of wc-keplr, called as request r with preference pref.
getKeplrBody(s, r, pref) ==
  IF s.lastUsedWallet # Absent
  THEN cacheHit(s, r)
  ELSE IF pref = "extension"
  THEN resolveWallet([pendingRequest(s, r, "pref") EXCEPT
                        !.requests[r].method = "extension"], r, "extension")
  ELSE IF pref = "walletconnect" /\ s.storedSession
  THEN LET c == NextConn(s)
           s1 == [pendingRequest(s, r, "pref") EXCEPT
                    !.requests[r].method = "walletconnect"]
       IN resolve(storeWallet(newConnector(s1, r), WrapperOf(c), "walletconnect"),
                  r, WrapperOf(c))
  ELSE promptKeplr(pendingRequest(s, r, "prompt"), r)

getKeplr ==
  /\ variant = "keplr"
  /\ FreeReqs(Pack) # {}
  /\ Cardinality(Pending(Pack)) < MaxPending
  /\ (lastUsedWallet = Absent /\ defaultConnectionType = "walletconnect"
        /\ storedSession) => FreeConns(Pack) # {}
  /\ Unpack(getKeplrBody(Pack, Min(FreeReqs(Pack)), defaultConnectionType))
  /\ UNCHANGED <<variant, defaultConnectionType>>

\* clearLastUsedWalletBody that also drops the listeners, as cleanUp() does.
clearLastUsedWalletAndListeners(s) ==
  cleanUp([s EXCEPT !.lastUsedWallet = Absent, !.connectionType = NoType,
                    !.firstResolved = NoHandle], 0)

\* clearLastUsedWallet() / clearLastUsedKeplr():
\* lastUsedWalletRef.current = undefined; setConnectionType(undefined).
clearLastUsedWalletBody(s) ==
  [s EXCEPT !.lastUsedWallet = Absent, !.connectionType = NoType,
            !.firstResolved = NoHandle]

clearLastUsedWallet ==
  /\ Unpack(clearLastUsedWalletBody(Pack))
  /\ UNCHANGED <<variant, defaultConnectionType>>

\* setDefaultConnectionType(type).
setDefaultConnectionType(type) ==
  /\ defaultConnectionType' = type
  /\ UNCHANGED <<variant, isModalOpen, wcUri, lastUsedWallet, connectionType,
                 eventListener, requests, connectors, resolving, storedSession,
                 firstResolved>>

\* ------------------------------------------------------- connector events
\* qrcodeModal.open(uri, cb), called by the connector once the session
\* request of createSession() is out: setWCUri(uri); callbackClosed = cb
\* (wc-keplr also closes the selection modal here).
qrcodeModalOpen(s, c) ==
  LET r == s.connectors[c].owner
      s1 == [s EXCEPT !.connectors[c].uriPending = FALSE,
                      !.connectors[c].uriIssued = TRUE,
                      !.wcUri = c,
                      !.requests[r].callbackClosed = c]
  IN IF variant = "keplr" THEN [s1 EXCEPT !.isModalOpen = FALSE] ELSE s1

DisplayUri(c) ==
  /\ connectors[c].uriPending
  /\ Unpack(qrcodeModalOpen(Pack, c))
  /\ UNCHANGED <<variant, defaultConnectionType>>

\* A connect handler that does not look at the error of the event.
onConnectWalletIgnoresError(s, r, error) == resolveWallet(s, r, "walletconnect")

\* GetWalletProvider: wcConnector.on("connect", (error) => ...).
onConnectWallet(s, r, error) ==
  IF error THEN reject(s, r, "error") ELSE resolveWallet(s, r, "walletconnect")

\* wc-keplr: connector.on("connect", (error) => ...).
onConnectKeplr(s, r, c, error) ==
  LET s1 == cleanUp(s, r)
  IN IF error
     THEN reject(s1, r, "error")
     ELSE resolve(storeWallet([s1 EXCEPT !.isModalOpen = FALSE],
                              WrapperOf(c), "walletconnect"),
                  r, WrapperOf(c))

\* The connect handlers registered on connector c run, n of them.
RECURSIVE RunConnectHandlers(_, _, _, _)
RunConnectHandlers(s, c, error, n) ==
  IF n = 0 THEN s
  ELSE LET r == s.connectors[c].owner
           s1 == IF variant = "wallet" THEN onConnectWallet(s, r, error)
                 ELSE onConnectKeplr(s, r, c, error)
       IN RunConnectHandlers(s1, c, error, n - 1)

\* The connector's "connect" event: the peer approved the session, or the
\* event carries an error.  The connector first closes its QR modal
\* (qrcodeModal.close: setWCUri("")) and, on approval, is connected and keeps
\* the session in storage.
connectArrives(s, c, error) ==
  [s EXCEPT !.connectors[c].fired = TRUE,
            !.connectors[c].connected = ~error,
            !.storedSession = s.storedSession \/ ~error,
            !.wcUri = 0]

connectEvent(s, c, error) ==
  RunConnectHandlers(connectArrives(s, c, error), c, error, s.connectors[c].handlers)

ConnectEvent(c, error) ==
  /\ connectors[c].sessions > 0
  /\ connectors[c].uriIssued
  /\ ~connectors[c].uriPending
  /\ ~connectors[c].fired
  /\ Unpack(connectEvent(Pack, c, error))
  /\ UNCHANGED <<variant, defaultConnectionType>>

\* ---------------------------------------------------- resolver completions
\* resolveWalletDone that settles the promise without the cleanUp() before it.
resolveWalletDoneKeepsListeners(s, r, m, w) ==
  LET s1 == [s EXCEPT !.resolving[r][m] = s.resolving[r][m] - 1]
  IN resolve(storeWallet(s1, w, m), r, w)

\* resolveWallet after its await: the resolver returned wallet w.
resolveWalletDone(s, r, m, w) ==
  LET s1 == [s EXCEPT !.resolving[r][m] = s.resolving[r][m] - 1]
  IN resolve(cleanUp(storeWallet(s1, w, m), r), r, w)

\* resolveWallet after its await: the resolver failed.  Called without a
\* resolver (preference path) its promise is the request's promise; called
\* from a listener nobody takes the failure.
resolveWalletFailed(s, r, m) ==
  LET s1 == [s EXCEPT !.resolving[r][m] = s.resolving[r][m] - 1]
  IN IF s.requests[r].path = "pref" THEN reject(s1, r, "resolverError") ELSE s1

\* wc-keplr: getKeplrFromWindow().then((keplr) => ...).
getKeplrFromWindowDone(s, r, w) ==
  LET s1 == [s EXCEPT !.resolving[r]["extension"] = s.resolving[r]["extension"] - 1]
      s2 == resolve(storeWallet(s1, w, "extension"), r, w)
  IN IF s.requests[r].path = "pref" THEN s2 ELSE cleanUp(s2, r)

\* What a resolver can return: any wallet object or undefined from the
\* getWallet of a WalletInfo; window.keplr or undefined from getKeplrFromWindow.
Returns == IF variant = "wallet" THEN Handles \cup {Absent} ELSE {Min(Handles), Absent}

ResolverReturns(r, m, w) ==
  /\ resolving[r][m] > 0
  /\ w \in Returns
  /\ variant = "keplr" => m = "extension"
  /\ Unpack(IF variant = "wallet" THEN resolveWalletDone(Pack, r, m, w)
            ELSE getKeplrFromWindowDone(Pack, r, w))
  /\ UNCHANGED <<variant, defaultConnectionType>>

ResolverFails(r, m) ==
  /\ variant = "wallet"
  /\ resolving[r][m] > 0
  /\ Unpack(resolveWalletFailed(Pack, r, m))
  /\ UNCHANGED <<variant, defaultConnectionType>>

\* ---------------------------------------------------------- specification
Next ==
  \/ getWallet
  \/ getKeplr
  \/ clearLastUsedWallet
  \/ \E type \in Methods \cup {NoType} : setDefaultConnectionType(type)
  \/ EmitModalClose
  \/ \E m \in Methods : EmitSelect(m)
  \/ EmitWcQrModalClose
  \/ \E c \in Conns : DisplayUri(c)
  \/ \E c \in Conns, error \in BOOLEAN : ConnectEvent(c, error)
  \/ \E r \in Reqs, m \in Methods, w \in Handles \cup {Absent} : ResolverReturns(r, m, w)
  \/ \E r \in Reqs, m \in Methods : ResolverFails(r, m)

Spec == Init /\ [][Next]_vars

\* ============================================================== properties
Settled(r) == requests[r].state \in {"resolved", "rejected"}
ListenersOf(r) == {t \in Topics : r \in eventListener[t]}
\* A step in which request r is the call being made.
Called(r) == requests[r].state = "unused" /\ requests'[r].state # "unused"
\* A step in which the pending request r settles.
Settles(r) == requests[r].state = "pending" /\ requests'[r].state # "pending"
\* Suspended on the selection modal: prompted, pending, nothing picked yet.
AwaitingSelection(r) ==
  /\ requests[r].state = "pending"
  /\ requests[r].path = "prompt"
  /\ requests[r].method = NoType

\* C1: for every request() call the resolve and reject callbacks of its
\* promise are invoked at most once in total, whatever pick, dismiss, pairing
\* and resolver steps happen, those caused by other calls included.
C1_SettledOnce == \A r \in Reqs : requests[r].calls <= 1

\* C2: once a request() has resolved with handle H and until
\* clearLastUsedWallet() is called, every request() call resolves at once with
\* the identical handle H and makes neither modal visible.
C2_Idempotent ==
  [][\A r \in Reqs :
       (Called(r) /\ firstResolved # NoHandle)
         => /\ requests'[r].state = "resolved"
            /\ requests'[r].value = firstResolved
            /\ isModalOpen' = isModalOpen
            /\ wcUri' = wcUri]_vars

\* C3: a request that reached a terminal state (resolved or rejected) has no
\* listener left on any topic of the EventEmitter.
C3_ListenerHygiene == \A r \in Reqs : Settled(r) => ListenersOf(r) = {}

\* C4: when the QR modal shows the pairing URI of a connector whose request
\* picked the remote method and is still pending, closing the modal before the
\* connect event invokes the connector's cancel callback, rejects the request
\* with the cancellation, hides the QR modal and leaves the cache absent.
C4_PairingDismissal ==
  [][\A c \in Conns :
       (/\ EmitWcQrModalClose
        /\ wcUri = c
        /\ ~connectors[c].fired
        /\ requests[connectors[c].owner].state = "pending"
        /\ requests[connectors[c].owner].method = "walletconnect"
        /\ lastUsedWallet = Absent)
         => /\ connectors'[c].cancelled
            /\ requests'[connectors[c].owner].state = "rejected"
            /\ requests'[connectors[c].owner].reason = "undefined"
            /\ wcUri' = 0
            /\ lastUsedWallet' = Absent]_vars

\* C5: a step in which one request settles leaves every listener of every
\* other request that stays pending registered.
C5_NoCrossFire ==
  [][\A r \in Reqs :
       (/\ requests[r].state = "pending"
        /\ requests'[r].state = "pending"
        /\ \E q \in Reqs \ {r} : Settles(q))
         => ListenersOf(r) \subseteq {t \in Topics : r \in eventListener'[t]}]_vars

\* C6: a request() made while the cache holds a wallet resolves at once with
\* that wallet and changes nothing else: cache, connectionType, preference,
\* both modals, the listeners, the connectors and sessions, the resolver calls
\* in flight and every other request stay as they were.
C6_CacheHitNoSideEffects ==
  [][\A r \in Reqs :
       (Called(r) /\ lastUsedWallet # Absent)
         => /\ requests'[r].state = "resolved"
            /\ requests'[r].value = lastUsedWallet
            /\ requests'[r].wcConnector = 0
            /\ \A q \in Reqs \ {r} : requests'[q] = requests[q]
            /\ UNCHANGED <<lastUsedWallet, connectionType, defaultConnectionType,
                           isModalOpen, wcUri, eventListener, connectors,
                           resolving, storedSession>>]_vars

C6_Witness ==
  \E r \in Reqs : requests[r].path = "cache" /\ requests[r].state = "resolved"

\* C7: with the cache absent and the preference "extension", request() calls
\* the extension resolver directly, registers no listener and resolves with
\* what the resolver returned; the selection modal is made visible neither by
\* the call nor by the step that settles it.
C7_PreferenceExtension ==
  [][\A r \in Reqs :
       /\ (Called(r) /\ lastUsedWallet = Absent /\ defaultConnectionType = "extension")
            => /\ requests'[r].path = "pref"
               /\ requests'[r].method = "extension"
               /\ resolving'[r]["extension"] > 0
               /\ \A t \in Topics : r \notin eventListener'[t]
               /\ isModalOpen' = isModalOpen
       /\ (requests[r].path = "pref" /\ requests[r].method = "extension" /\ Settles(r))
            => /\ isModalOpen' = isModalOpen
               /\ resolving'[r]["extension"] < resolving[r]["extension"]
               /\ requests'[r].state = "resolved"
                    => requests'[r].value = lastUsedWallet']_vars

C7_Witness ==
  \E r \in Reqs :
    /\ requests[r].path = "pref"
    /\ requests[r].method = "extension"
    /\ requests[r].state = "resolved"
    /\ requests[r].value # Absent
    /\ ~isModalOpen

\* C8: with the cache absent and the preference set to the id of any known
\* method, the remote method with no connected connector included, request()
\* goes to that method's resolver without making the selection modal visible,
\* and when it resolves the cache holds the wallet and connectionType the id.
C8_PreferenceAnyMethod ==
  [][\A r \in Reqs :
       /\ (Called(r) /\ lastUsedWallet = Absent /\ defaultConnectionType \in Methods)
            => /\ requests'[r].path = "pref"
               /\ requests'[r].method = defaultConnectionType
               /\ isModalOpen' = isModalOpen
       /\ (requests'[r].path = "pref" /\ requests[r].state # "resolved"
             /\ requests'[r].state = "resolved")
            => /\ lastUsedWallet' = requests'[r].value
               /\ connectionType' = requests'[r].method]_vars

\* C9: closing the selection modal while a request is suspended on it rejects
\* that request with the cancellation, hides the modal, leaves the request
\* with no listener, and leaves cache and connectionType unchanged.
C9_SelectionDismissal ==
  [][\A r \in Reqs :
       (EmitModalClose /\ AwaitingSelection(r))
         => /\ requests'[r].state = "rejected"
            /\ requests'[r].reason = "undefined"
            /\ ~isModalOpen'
            /\ \A t \in Topics : r \notin eventListener'[t]
            /\ UNCHANGED <<lastUsedWallet, connectionType>>]_vars

\* C10: on a connector that reports connected when the remote method is
\* chosen, createSession() is not called; a connector connected from the start
\* never gets a session, no pairing URI of it is issued or shown, and the
\* choice goes straight to the resolver.
C10_SessionReuse ==
  [][\A c \in Conns :
       /\ connectors[c].connected
            => /\ connectors'[c].sessions = connectors[c].sessions
               /\ ~connectors'[c].uriPending
       /\ connectors'[c].restored
            => /\ connectors'[c].sessions = 0
               /\ ~connectors'[c].uriPending
               /\ ~connectors'[c].uriIssued
               /\ wcUri' # c
               /\ LET r == connectors'[c].owner
                  IN (/\ requests[r].method # "walletconnect"
                      /\ requests'[r].method = "walletconnect"
                      /\ requests'[r].path = "prompt"
                      /\ requests'[r].wcConnector = c \/ connectors[c].owner = 0)
                       => \/ resolving'[r]["walletconnect"] > 0
                          \/ /\ requests'[r].state = "resolved"
                             /\ requests'[r].value = WrapperOf(c)]_vars

C10_Witness ==
  \E c \in Conns :
    /\ connectors[c].restored
    /\ requests[connectors[c].owner].path = "prompt"
    /\ requests[connectors[c].owner].method = "walletconnect"
    /\ requests[connectors[c].owner].state = "resolved"
    /\ wcUri = 0

\* C11: connectionType is absent or the id of the method that produced the
\* wallet now in the cache; it is never present while the cache is absent.
C11_TypeReflectsCache == lastUsedWallet = Absent => connectionType = NoType

\* C12: clearLastUsedWallet() sets cache and connectionType to absent, leaves
\* the preference, both modals, the listeners, the connectors, the resolver
\* calls in flight and every request as they are, and a second call right
\* after the first changes nothing more.
ClearedFrom(s, t) ==
  /\ t.lastUsedWallet = Absent
  /\ t.connectionType = NoType
  /\ t.isModalOpen = s.isModalOpen
  /\ t.wcUri = s.wcUri
  /\ t.eventListener = s.eventListener
  /\ t.requests = s.requests
  /\ t.connectors = s.connectors
  /\ t.resolving = s.resolving
  /\ t.storedSession = s.storedSession

C12_ClearFrame ==
  /\ [](/\ ClearedFrom(Pack, clearLastUsedWalletBody(Pack))
        /\ clearLastUsedWalletBody(clearLastUsedWalletBody(Pack))
             = clearLastUsedWalletBody(Pack))
  /\ [][(/\ lastUsedWallet' = Absent
         /\ connectionType' = NoType
         /\ lastUsedWallet # Absent \/ connectionType # NoType)
          => /\ ClearedFrom(Pack, Pack')
             /\ clearLastUsedWalletBody(Pack)' = Pack'
             /\ UNCHANGED <<defaultConnectionType, variant>>]_vars

\* The cache was filled and then cleared while a request was pending.
C12_Witness ==
  /\ lastUsedWallet = Absent
  /\ connectionType = NoType
  /\ \E r \in Reqs : requests[r].state = "resolved" /\ requests[r].value # Absent
  /\ \E r \in Reqs : requests[r].state = "pending" /\ ListenersOf(r) # {}
  /\ defaultConnectionType # NoType


\* What each event the environment can deliver next would make of the state:
\* dismissing the selection modal, a pick, dismissing the QR modal, the
\* display of a pairing URI, the connect event of a connector, the return or
\* the failure of a resolver.  An event that cannot happen maps to the state
\* itself.
Outcomes ==
  LET s == Pack
  IN [modalClose |-> IF isModalOpen THEN emit(s, "modal_close") ELSE s,
      select |-> [m \in Methods |->
                    IF /\ isModalOpen
                       /\ (variant = "keplr" /\ IsRemote(m))
                            => Cardinality(eventListener[m]) <= Cardinality(FreeConns(s))
                    THEN emit(s, m) ELSE s],
      qrClose |-> IF wcUri # 0 THEN emit(s, "wc_qr_modal_close") ELSE s,
      uri |-> [c \in Conns |->
                 IF connectors[c].uriPending THEN qrcodeModalOpen(s, c) ELSE s],
      connect |-> [c \in Conns, e \in BOOLEAN |->
                     IF /\ connectors[c].sessions > 0
                        /\ connectors[c].uriIssued
                        /\ ~connectors[c].uriPending
                        /\ ~connectors[c].fired
                     THEN connectEvent(s, c, e) ELSE s],
      returns |-> [r \in Reqs, m \in Methods, w \in Handles \cup {Absent} |->
                     IF /\ resolving[r][m] > 0
                        /\ w \in Returns
                        /\ variant = "keplr" => m = "extension"
                     THEN IF variant = "wallet" THEN resolveWalletDone(s, r, m, w)
                          ELSE getKeplrFromWindowDone(s, r, w)
                     ELSE s],
      fails |-> [r \in Reqs, m \in Methods |->
                   IF variant = "wallet" /\ resolving[r][m] > 0
                   THEN resolveWalletFailed(s, r, m) ELSE s]]

\* C13: setDefaultConnectionType changes the preference and nothing else, and
\* a request already in flight is not affected: its path stays the one taken
\* at the call, and every event it can still receive (a pick, a dismissal,
\* the pairing URI, the connect event, the return or failure of its resolver)
\* leads to the same state after the change as before it.  Only a call made
\* afterwards reads the new value.  The outcomes are compared across the
\* changes away from "no preference"; every state has its counterpart with no
\* preference, so equality with that one covers every pair of values.
C13_PreferenceFrame ==
  [][/\ defaultConnectionType' # defaultConnectionType
          => /\ Pack' = Pack
             /\ variant' = variant
             /\ defaultConnectionType = NoType => Outcomes' = Outcomes
     /\ \A r \in Reqs :
          /\ requests[r].state # "unused" => requests'[r].path = requests[r].path
          /\ (Called(r) /\ requests'[r].path = "pref")
               => requests'[r].method = defaultConnectionType
          /\ (Called(r) /\ lastUsedWallet = Absent /\ defaultConnectionType = NoType)
               => requests'[r].path = "prompt"]_vars

\* A prompted request resolved through its pick although the preference was
\* set to the other method while it was in flight.
C13_Witness ==
  \E r \in Reqs :
    /\ requests[r].path = "prompt"
    /\ requests[r].state = "resolved"
    /\ requests[r].method = "walletconnect"
    /\ connectionType = "walletconnect"
    /\ defaultConnectionType = "extension"

\* C14: a request that used the extension method is never resolved with an
\* absent handle: when the probe finds no extension the request is rejected.
C14_ExtensionAbsenceRejects ==
  \A r \in Reqs :
    (requests[r].method = "extension" /\ requests[r].state = "resolved")
      => requests[r].value # Absent

\* C15: on the prompted path, the completion of a resolver of a pending
\* request always settles it: a return resolves it, a failure rejects it; the
\* request is not left pending by the failure of its resolver.
C15_ResolverFailureRejects ==
  [][\A r \in Reqs, m \in Methods :
       (/\ requests[r].path = "prompt"
        /\ requests[r].state = "pending"
        /\ resolving'[r][m] < resolving[r][m])
         => requests'[r].state # "pending"]_vars

\* C16: when the connect event of a connector carries an error while the
\* owning request is pending, the request is rejected with that error, cache
\* and connectionType are unchanged, and no resolver is started.
C16_PairingFailure ==
  [][\A c \in Conns :
       (/\ ~connectors[c].fired
        /\ connectors'[c].fired
        /\ ~connectors'[c].connected
        /\ connectors[c].owner # 0
        /\ requests[connectors[c].owner].state = "pending")
         => /\ requests'[connectors[c].owner].state = "rejected"
            /\ requests'[connectors[c].owner].reason = "error"
            /\ UNCHANGED <<lastUsedWallet, connectionType, resolving>>]_vars

\* A pairing that ended with an error and its request rejected with it.
C16_Witness ==
  \E c \in Conns :
    /\ connectors[c].fired
    /\ ~connectors[c].connected
    /\ connectors[c].owner # 0
    /\ requests[connectors[c].owner].state = "rejected"
    /\ requests[connectors[c].owner].reason = "error"

\* Between state s and the state t a handler made of it, every request that
\* became resolved (other than by the cache) finds the cache holding its
\* value, connectionType holding method m, and none of its listeners left.
SuccessOrdered(s, t, m) ==
  \A r \in Reqs :
    (/\ s.requests[r].state # "resolved"
     /\ t.requests[r].state = "resolved"
     /\ t.requests[r].path # "cache")
      => /\ t.lastUsedWallet = t.requests[r].value
         /\ t.connectionType = m
         /\ \A topic \in Topics : r \notin t.eventListener[topic]

\* SuccessOrdered for each listener of an emit in turn, as RunHandlers runs them.
RECURSIVE HandlersOrdered(_, _, _)
HandlersOrdered(s, rs, topic) ==
  \/ rs = {}
  \/ LET r == Min(rs)
         t == Handler(s, r, topic)
     IN SuccessOrdered(s, t, topic) /\ HandlersOrdered(t, rs \ {r}, topic)

\* SuccessOrdered for each connect handler in turn, as RunConnectHandlers
\* runs them.
RECURSIVE ConnectHandlersOrdered(_, _, _, _)
ConnectHandlersOrdered(s, c, error, n) ==
  \/ n = 0
  \/ LET t == RunConnectHandlers(s, c, error, 1)
     IN SuccessOrdered(s, t, "walletconnect")
          /\ ConnectHandlersOrdered(t, c, error, n - 1)

C18_OneSessionPerConnector ==
  \A c \in Conns : connectors[c].sessions <= 1

\* C19: once a request is rejected, or its pairing modal was dismissed, no
\* later event of that request (the connect event of its connector, the
\* completion of a resolver it started) changes cache or connectionType.
C19_CancelledNeverWrites ==
  [][\A r \in Reqs :
       (/\ \/ requests[r].state = "rejected"
           \/ \E c \in Conns : connectors[c].owner = r /\ connectors[c].cancelled
        /\ \/ \E m \in Methods : resolving'[r][m] < resolving[r][m]
           \/ \E c \in Conns : /\ connectors[c].owner = r
                               /\ ~connectors[c].fired
                               /\ connectors'[c].fired)
         => UNCHANGED <<lastUsedWallet, connectionType>>]_vars

\* C20: while the selection modal is open, some pending request still has
\* its dismiss listener and its listener for every method registered.
C20_PromptClosable ==
  isModalOpen
    => \E r \in Reqs :
         /\ requests[r].state = "pending"
         /\ r \in eventListener["modal_close"]
         /\ \A m \in Methods : r \in eventListener[m]

====
